---- MODULE Spec2Model ----
(***************************************************************************)
(* Model of reggen's IpBlock (src/reggen/ip_block.py): construction from   *)
(* a raw description (from_raw, __post_init__) and the alias merge         *)
(* (alias_from_raw), driven the way regtool.py drives them: one            *)
(* construction, then at most one alias merge, then the serialization      *)
(* (_asdict), which a fresh from_raw may read back.  The regwen audit      *)
(* (check_regwens) is a pure function of the register blocks and has its   *)
(* own specification, SpecRegwen.                                          *)
(*                                                                         *)
(* The collaborators BusInterfaces and RegBlock are not part of the        *)
(* sources at hand; the model keeps of them what ip_block.py reads and     *)
(* writes.  A register block is a record                                   *)
(*   origin   which build_blocks call created the object                   *)
(*   key      the device interface it was created for                      *)
(*   struct   its structure (register count, field layout, ...)            *)
(*   cosm     its overridable attributes (name, desc, resval, tags)        *)
(* and origin and key together are the identity of the Python object.      *)
(***************************************************************************)
EXTENDS Integers, Sequences, FiniteSets, TLC

\* Number of distinct register structures an alias file may describe.
NumStructs == 2

\* The dictionary key of the unnamed device interface.
None == "None"

IfNames == {"core", "dma"}
DictKeys == IfNames \cup {None}
BlockName == "uart"
TargetNames == {"uart", "spi"}
AsyncClocks == {"clk_a", "clk_b"}
Nodes == {""} \cup IfNames
DefaultHierPath == "u_reg"
AliasHierPath == "u_alias"
Structs == 1..NumStructs
\* the structure of the generic description: the first one
GenericStruct == CHOOSE s \in Structs : s - 1 \notin Structs

VARIABLES
    phase,           \* "start", "built" (an IpBlock exists), "failed", "merged", "merge_failed"
    name,            \* IpBlock.name
    node,            \* IpBlock.node
    reg_blocks,      \* IpBlock.reg_blocks : device interface key -> register block
    bus_interfaces,  \* IpBlock.bus_interfaces
    alias_impl,      \* IpBlock.alias_impl
    call,            \* the last call: its arguments and its outcome
    old,             \* the IpBlock's fields when the last call started
    ser,             \* the result of IpBlock._asdict, once taken
    reparsed,        \* the result of a fresh from_raw on ser, once taken
    rw_blocks,       \* the register blocks check_regwens is called on
    rw_status        \* the value check_regwens returned, once called

vars == <<phase, name, node, reg_blocks, bus_interfaces, alias_impl, call, old,
          ser, reparsed, rw_blocks, rw_status>>

----------------------------------------------------------------------------
\* Python helpers

\* set(l) for a list l
set(l) == {l[i] : i \in DOMAIN l}

\* the empty dict
EmptyDict == [k \in {} |-> None]

\* d with d[k] = v added or replaced
DictSet(d, k, v) == [x \in (DOMAIN d) \cup {k} |-> IF x = k THEN v ELSE d[x]]

\* the lists without repetition over a set, in every order
RECURSIVE ListsOver(_)
ListsOver(S) ==
    {<<>>} \cup UNION {{<<x>> \o l : l \in ListsOver(S \ {x})} : x \in S}

----------------------------------------------------------------------------
\* Collaborators

\* BusInterfaces.from_raw: the parsed bus_interfaces entry of a description.
BusInterfaces(has_unnamed_host, named_hosts, has_unnamed_device, named_devices, device_async, hier_path) ==
    [has_unnamed_host   |-> has_unnamed_host,
     named_hosts        |-> named_hosts,
     has_unnamed_device |-> has_unnamed_device,
     named_devices      |-> named_devices,
     device_async       |-> device_async,
     device_hier_paths  |->
        [k \in set(named_devices) \cup (IF has_unnamed_device THEN {None} ELSE {})
            |-> hier_path]]

NoBusInterfaces == BusInterfaces(FALSE, <<>>, FALSE, <<>>, EmptyDict, DefaultHierPath)

\* A RegBlock object, as build_blocks creates it.
RegBlock(origin, key, struct, cosm) ==
    [origin |-> origin, key |-> key, struct |-> struct, cosm |-> cosm]

\* RegBlock.build_blocks: one register block per key of the 'registers' entry,
\* in document order.  registers is a list of [key, struct, cosm] entries; the
\* result is the list of the dict's items.
build_blocks(registers, is_alias) ==
    [i \in DOMAIN registers |->
        [key   |-> registers[i].key,
         block |-> RegBlock(IF is_alias THEN "alias" ELSE "generic",
                            registers[i].key, registers[i].struct,
                            registers[i].cosm)]]

\* dict.keys() and the dict itself, for a list of items
keys(items) == {items[i].key : i \in DOMAIN items}

AsDict(items) ==
    [k \in keys(items) |->
        items[CHOOSE i \in DOMAIN items : items[i].key = k].block]

\* RegBlock.scrub_alias: the alias block with its sensitive attributes scrubbed.
scrub_alias(alias_block) == [alias_block EXCEPT !.cosm = "scrubbed"]

\* RegBlock.apply_alias: raises unless the structures agree, and then takes
\* over the alias block's overridable attributes.
apply_alias_ok(block, alias_block) == block.struct = alias_block.struct

apply_alias(block, alias_block) == [block EXCEPT !.cosm = alias_block.cosm]

----------------------------------------------------------------------------
\* IpBlock construction

Result(status, step, rb, bus, impl) ==
    [status |-> status, step |-> step, reg_blocks |-> rb,
     bus_interfaces |-> bus, alias_impl |-> impl]

\* IpBlock.__post_init__: the node filter, then the bijection assertion.
post_init(rb, bus, nd) ==
    IF DOMAIN rb = {}
    THEN Result("AssertionError", "assert reg_blocks", rb, bus, None)
    ELSE
      LET IsNode(i) == i = nd
          named == IF nd # ""
                   THEN SelectSeq(bus.named_devices, IsNode)
                   ELSE bus.named_devices
          filtered == IF nd # ""
                      THEN [k \in {x \in DOMAIN rb : x = nd} |-> rb[k]]
                      ELSE rb
          dev_if_names == IF bus.has_unnamed_device
                          THEN Append(named, None)
                          ELSE named
      IN  IF DOMAIN filtered = set(dev_if_names)
          THEN Result("ok", "done", filtered, bus, None)
          ELSE Result("AssertionError", "assert bijection", filtered, bus, None)

\* from_raw as it would be if it dropped the register blocks that have no
\* device interface instead of rejecting the description
from_raw_silent_drop(raw, nd) ==
    IF raw.fault = "schema"
    THEN Result("ValueError", "schema", EmptyDict, NoBusInterfaces, None)
    ELSE
      LET bus == raw.bus_interfaces
          items == build_blocks(raw.registers, FALSE)
          dev_if_names == IF bus.has_unnamed_device
                          THEN Append(bus.named_devices, None)
                          ELSE bus.named_devices
          d == AsDict(items)
      IN  post_init([k \in DOMAIN d \cap set(dev_if_names) |-> d[k]], bus, nd)

\* IpBlock.from_raw.  raw.fault = "schema" stands for a description that the
\* schema and value checks of lines 132-173 reject.
from_raw(raw, nd) ==
    IF raw.fault = "schema"
    THEN Result("ValueError", "schema", EmptyDict, NoBusInterfaces, None)
    ELSE
      LET bus == raw.bus_interfaces
          items == build_blocks(raw.registers, FALSE)
          dev_if_names == IF bus.has_unnamed_device
                          THEN Append(bus.named_devices, None)
                          ELSE bus.named_devices
      IN  IF keys(items) # set(dev_if_names)
          THEN Result("ValueError", "bijection", EmptyDict, NoBusInterfaces, None)
          ELSE post_init(AsDict(items), bus, nd)

----------------------------------------------------------------------------
\* Alias merge

\* Lines 304-312: the device_async double check for the item block_key;
\* the error it raises, or "none".
async_check(self_bus, alias_bus_interfaces, block_key) ==
    LET self_async == self_bus.device_async
        alias_async == alias_bus_interfaces.device_async
    IN  IF DOMAIN self_async = {} THEN "none"
        ELSE IF DOMAIN alias_async = {} THEN "missing device_async"
        ELSE IF block_key \notin DOMAIN alias_async
                \/ block_key \notin DOMAIN self_async
        THEN "KeyError"
        ELSE IF alias_async[block_key] # self_async[block_key]
        THEN "inconsistent async"
        ELSE "none"

\* scrub_merge as it would be if it rebuilt the dict from the alias block
scrub_merge_rebuilds_dict(st, block_key, alias_block) ==
    [st EXCEPT !.reg_blocks =
        DictSet(EmptyDict, block_key, scrub_alias(alias_block))]

\* scrub_merge as it would be without the call of scrub_alias
scrub_merge_unscrubbed(st, block_key, alias_block) ==
    [st EXCEPT !.reg_blocks = DictSet(st.reg_blocks, block_key, alias_block)]

\* Lines 314-317: scrub the alias block and replace the entire block.
scrub_merge(st, block_key, alias_block) ==
    [st EXCEPT !.reg_blocks =
        DictSet(st.reg_blocks, block_key, scrub_alias(alias_block))]

\* apply_merge as it would be if it rebuilt the dict from the merged block
apply_merge_rebuilds_dict(st, alias_bus_interfaces, block_key, alias_block) ==
    IF ~apply_alias_ok(st.reg_blocks[block_key], alias_block)
    THEN [st EXCEPT !.status = "ValueError", !.step = "apply_alias"]
    ELSE [st EXCEPT !.reg_blocks =
              DictSet(EmptyDict, block_key,
                      apply_alias(st.reg_blocks[block_key], alias_block))]

\* apply_merge as it would be without the override of the hier path
apply_merge_keeps_hier_path(st, alias_bus_interfaces, block_key, alias_block) ==
    IF ~apply_alias_ok(st.reg_blocks[block_key], alias_block)
    THEN [st EXCEPT !.status = "ValueError", !.step = "apply_alias"]
    ELSE [st EXCEPT !.reg_blocks[block_key] =
              apply_alias(st.reg_blocks[block_key], alias_block)]

\* Lines 318-324: override the hier path of the aliased interface, then
\* validate and apply the alias definitions.
apply_merge(st, alias_bus_interfaces, block_key, alias_block) ==
    IF block_key \notin DOMAIN alias_bus_interfaces.device_hier_paths
    THEN [st EXCEPT !.status = "KeyError", !.step = "device_hier_paths"]
    ELSE
      LET hier_path == alias_bus_interfaces.device_hier_paths[block_key]
          st2 == [st EXCEPT !.bus_interfaces.device_hier_paths =
                      DictSet(st.bus_interfaces.device_hier_paths,
                              block_key, hier_path)]
      IN  IF block_key \notin DOMAIN st2.reg_blocks
          THEN [st2 EXCEPT !.status = "KeyError", !.step = "reg_blocks"]
          ELSE IF ~apply_alias_ok(st2.reg_blocks[block_key], alias_block)
          THEN [st2 EXCEPT !.status = "ValueError", !.step = "apply_alias"]
          ELSE [st2 EXCEPT !.reg_blocks[block_key] =
                    apply_alias(st2.reg_blocks[block_key], alias_block)]

\* One iteration of the merge loop of alias_from_raw, for the item
\* (block_key, alias_block) of alias_reg_blocks.  st is the IpBlock so far.
merge_step(st, scrub, alias_bus_interfaces, block_key, alias_block) ==
    LET err == async_check(st.bus_interfaces, alias_bus_interfaces, block_key)
    IN  IF err = "KeyError"
        THEN [st EXCEPT !.status = "KeyError", !.step = "device_async"]
        ELSE IF err # "none"
        THEN [st EXCEPT !.status = "ValueError", !.step = err]
        ELSE IF scrub
        THEN scrub_merge(st, block_key, alias_block)
        ELSE apply_merge(st, alias_bus_interfaces, block_key, alias_block)

\* The merge loop: the items of alias_reg_blocks from the i-th on, in order,
\* until one raises.
RECURSIVE merge_loop(_, _, _, _, _)
merge_loop(st, scrub, alias_bus_interfaces, items, i) ==
    IF i > Len(items) \/ st.status # "ok"
    THEN st
    ELSE merge_loop(merge_step(st, scrub, alias_bus_interfaces,
                               items[i].key, items[i].block),
                    scrub, alias_bus_interfaces, items, i + 1)

\* Lines 248-256: alias registers are only defined for named devices.
rejects_host(alias_bus_interfaces) ==
    alias_bus_interfaces.has_unnamed_host
    \/ alias_bus_interfaces.named_hosts # <<>>

\* rejects_unnamed as it would be if it looked at the alias file only
rejects_unnamed_alias_only(self, alias_bus_interfaces) ==
    alias_bus_interfaces.has_unnamed_device

rejects_unnamed(self, alias_bus_interfaces) ==
    alias_bus_interfaces.has_unnamed_device
    \/ self.bus_interfaces.has_unnamed_device

\* device_names_ok as it would be with the subset test the wrong way round
device_names_superset(self, alias_bus_interfaces) ==
    set(self.bus_interfaces.named_devices)
        \subseteq set(alias_bus_interfaces.named_devices)

\* Lines 258-262: the alias device names are a subset of the IpBlock's.
device_names_ok(self, alias_bus_interfaces) ==
    set(alias_bus_interfaces.named_devices)
        \subseteq set(self.bus_interfaces.named_devices)

\* alias_target_ok as it would be if the target were never compared
alias_target_unchecked(self, alias_target) == TRUE

\* Line 274: the alias targets this block.
alias_target_ok(self, alias_target) == alias_target = self.name

\* Line 289: the alias register blocks are a subset of the IpBlock's.
reg_block_names_ok(self, alias_reg_block_names) ==
    alias_reg_block_names \subseteq DOMAIN self.reg_blocks

\* IpBlock.alias_from_raw on the IpBlock self.  raw.fault names the
\* collaborator call that rejects the alias description, if one does:
\* "check_keys" (lines 242-247), "alias_impl" (line 268), "build_blocks"
\* (line 281).
alias_from_raw(self, scrub, raw) ==
    LET alias_bus_interfaces == raw.bus_interfaces
        alias_bus_device_names == set(alias_bus_interfaces.named_devices)
        Raise(step, impl) ==
            Result("ValueError", step, self.reg_blocks, self.bus_interfaces, impl)
    IN
    IF raw.fault = "check_keys"
    THEN Raise("check_keys", self.alias_impl)
    ELSE IF rejects_host(alias_bus_interfaces)
    THEN Raise("host interface", self.alias_impl)
    ELSE IF rejects_unnamed(self, alias_bus_interfaces)
    THEN Raise("unnamed device", self.alias_impl)
    ELSE IF ~device_names_ok(self, alias_bus_interfaces)
    THEN Raise("device names", self.alias_impl)
    ELSE IF raw.fault = "alias_impl"
    THEN Raise("alias_impl", self.alias_impl)
    ELSE IF ~alias_target_ok(self, raw.alias_target)
    THEN Raise("alias_target", raw.alias_impl)
    ELSE IF raw.fault = "build_blocks"
    THEN Raise("build_blocks", raw.alias_impl)
    ELSE
      LET alias_reg_blocks == build_blocks(raw.registers, TRUE)
          alias_reg_block_names == keys(alias_reg_blocks)
      IN  IF ~reg_block_names_ok(self, alias_reg_block_names)
          THEN Raise("register blocks", raw.alias_impl)
          ELSE IF alias_reg_block_names # alias_bus_device_names
          THEN Raise("names do not match", raw.alias_impl)
          ELSE merge_loop(Result("ok", "done", self.reg_blocks,
                                 self.bus_interfaces, raw.alias_impl),
                          scrub, alias_bus_interfaces, alias_reg_blocks, 1)

----------------------------------------------------------------------------
\* Serialization

\* RegBlock.as_dicts: the content of a block as the entries of a description.
as_dicts(block) == [struct |-> block.struct, cosm |-> block.cosm]

\* BusInterfaces.as_dicts: one entry per interface, hosts first, the named
\* ones in declaration order.
bus_as_dicts(bus) ==
    (IF bus.has_unnamed_host
     THEN <<[direction |-> "host", name |-> None, async |-> None,
             hier_path |-> None]>>
     ELSE <<>>)
    \o [i \in DOMAIN bus.named_hosts |->
           [direction |-> "host", name |-> bus.named_hosts[i], async |-> None,
            hier_path |-> None]]
    \o [i \in DOMAIN bus.named_devices |->
           LET k == bus.named_devices[i]
           IN  [direction |-> "device", name |-> k,
                async |-> IF k \in DOMAIN bus.device_async
                          THEN bus.device_async[k] ELSE None,
                hier_path |-> bus.device_hier_paths[k]]]
    \o (IF bus.has_unnamed_device
        THEN <<[direction |-> "device", name |-> None, async |-> None,
                hier_path |-> bus.device_hier_paths[None]]>>
        ELSE <<>>)

\* BusInterfaces.from_raw on the entries as_dicts wrote.
bus_from_dicts(entries) ==
    LET IsNamedHost(e) == e.direction = "host" /\ e.name # None
        IsNamedDevice(e) == e.direction = "device" /\ e.name # None
        hosts == SelectSeq(entries, IsNamedHost)
        devices == SelectSeq(entries, IsNamedDevice)
        Dev(k) == entries[CHOOSE i \in DOMAIN entries :
                     entries[i].direction = "device" /\ entries[i].name = k]
        devkeys == {entries[i].name :
                      i \in {j \in DOMAIN entries : entries[j].direction = "device"}}
    IN  [has_unnamed_host   |-> \E i \in DOMAIN entries :
                                  /\ entries[i].direction = "host"
                                  /\ entries[i].name = None,
         named_hosts        |-> [i \in DOMAIN hosts |-> hosts[i].name],
         has_unnamed_device |-> None \in devkeys,
         named_devices      |-> [i \in DOMAIN devices |-> devices[i].name],
         device_async       |-> [k \in {x \in devkeys : Dev(x).async # None}
                                   |-> Dev(k).async],
         device_hier_paths  |-> [k \in devkeys |-> Dev(k).hier_path]]

\* _asdict as it would be if every single block were emitted as a flat list
asdict_single_is_flat(self) ==
    [form |-> "dict",
     name |-> self.name,
     registers |->
        IF Cardinality(DOMAIN self.reg_blocks) = 1
        THEN [form |-> "list",
              regs |-> as_dicts(self.reg_blocks[
                          CHOOSE k \in DOMAIN self.reg_blocks : TRUE])]
        ELSE [form |-> "dict",
              items |-> [k \in DOMAIN self.reg_blocks |->
                            as_dicts(self.reg_blocks[k])]],
     bus_interfaces |-> bus_as_dicts(self.bus_interfaces)]

\* IpBlock._asdict: 'registers' is a flat list for one unnamed block, a
\* mapping keyed by interface otherwise.
asdict(self) ==
    [form |-> "dict",
     name |-> self.name,
     registers |->
        IF Cardinality(DOMAIN self.reg_blocks) = 1
           /\ None \in DOMAIN self.reg_blocks
        THEN [form |-> "list", regs |-> as_dicts(self.reg_blocks[None])]
        ELSE [form |-> "dict",
              items |-> [k \in DOMAIN self.reg_blocks |->
                            as_dicts(self.reg_blocks[k])]],
     bus_interfaces |-> bus_as_dicts(self.bus_interfaces)]

\* The description from_raw reads back from the serialized form: build_blocks
\* keys a flat list by None and a mapping by its keys.
raw_of(d) ==
    [fault |-> "none",
     bus_interfaces |-> bus_from_dicts(d.bus_interfaces),
     registers |->
        IF d.registers.form = "list"
        THEN <<[key |-> None, struct |-> d.registers.regs.struct,
                cosm |-> d.registers.regs.cosm]>>
        ELSE LET S == DOMAIN d.registers.items
                 l == CHOOSE x \in ListsOver(DictKeys) :
                         set(x) = S /\ Len(x) = Cardinality(S)
             IN  [i \in DOMAIN l |->
                     [key |-> l[i], struct |-> d.registers.items[l[i]].struct,
                      cosm |-> d.registers.items[l[i]].cosm]]]

\* IpBlock.get_rnames: the register names of all blocks.  The names of a
\* block are given by its interface, its structure and its attributes.
get_rnames(rb) == {<<k, rb[k].struct, rb[k].cosm>> : k \in DOMAIN rb}

NoSer == [form |-> "none"]
NoReparse == Result("none", "none", EmptyDict, NoBusInterfaces, None)

----------------------------------------------------------------------------
\* Regwen audit

\* A register name is a list of its '_'-separated parts; the name contains
\* "REGWEN" when one of its parts is REGWEN.
HasREGWEN(reg_name) == \E i \in DOMAIN reg_name : reg_name[i] = "REGWEN"

\* all pregs of the multiregs from the i-th on, in order
RECURSIVE all_pregs(_, _)
all_pregs(multiregs, i) ==
    IF i > Len(multiregs) THEN <<>>
    ELSE multiregs[i].pregs \o all_pregs(multiregs, i + 1)

\* regwen_users as it would be if only the plain registers were scanned
regwen_users_plain_only(rb, regwen) ==
    LET Uses(reg) == reg.regwen = regwen
    IN  SelectSeq(rb.registers, Uses)

\* Lines 393-400: the registers and multi-register instances of the block
\* whose regwen field is regwen.
regwen_users(rb, regwen) ==
    LET Uses(reg) == reg.regwen = regwen
    IN  SelectSeq(rb.registers, Uses)
            \o SelectSeq(all_pregs(rb.multiregs, 1), Uses)

\* Lines 388-402: the regwens of the block that have no user.
unused_regwens(rb) ==
    LET IsRegwen(reg) == HasREGWEN(reg.name)
        regwens == SelectSeq(rb.registers, IsRegwen)
        regwen_names == [i \in DOMAIN regwens |-> regwens[i].name]
        Unused(regwen) == regwen_users(rb, regwen) = <<>>
    IN  SelectSeq(regwen_names, Unused)

\* IpBlock.check_regwens over the register blocks, in order.
RECURSIVE check_regwens(_, _, _)
check_regwens(blocks, i, status) ==
    IF i > Len(blocks) THEN status
    ELSE check_regwens(blocks, i + 1,
                       IF unused_regwens(blocks[i]) # <<>> THEN "False"
                       ELSE status)

\* register names, and what a regwen field may hold
RegNames == <<(<<"REGWEN">>), (<<"CTRL", "REGWEN">>), (<<"CTRL">>)>>
\* reg.regwen of a register without write-enable gate: the name without parts
NoRegwen == <<>>
RegwenFields == {NoRegwen, <<"REGWEN">>, <<"CTRL", "REGWEN">>}
PregName == <<"MULTI", "0">>

\* the plain registers of a block: each name at most once, in a fixed order
RECURSIVE RegisterLists(_)
RegisterLists(i) ==
    IF i > Len(RegNames) THEN {<<>>}
    ELSE LET rest == RegisterLists(i + 1)
         IN  rest \cup {<<[name |-> RegNames[i], regwen |-> w]>> \o l
                           : w \in RegwenFields, l \in rest}

\* the multiregs of a block: none, or one with a single instance
MultiregLists ==
    {<<>>} \cup {<<[pregs |-> <<[name |-> PregName, regwen |-> w]>>]>>
                    : w \in RegwenFields}

RegwenBlocks ==
    {[registers |-> r, multiregs |-> m] : r \in RegisterLists(1), m \in MultiregLists}

\* the reg_blocks of an IpBlock: one or two blocks
RegwenInputs ==
    {<<b>> : b \in RegwenBlocks} \cup {<<b, c>> : b, c \in RegwenBlocks}

----------------------------------------------------------------------------
\* Inputs

\* the 'registers' entry of a description: a flat list (one unnamed block) or
\* a mapping keyed by interface names, in document order
RegisterKeyLists == {<<None>>} \cup ListsOver(IfNames)

\* device_async: the asynchronous interfaces among the named devices
AsyncDicts(named, clocks) ==
    UNION {[S -> clocks] : S \in SUBSET set(named)}

\* the named devices of a description, in document order
NamedDeviceLists == {<<>>, <<"core">>, <<"dma">>, <<"core", "dma">>}

GenericClocks == {"clk_a"}
\* the host interfaces of an alias description: none, an unnamed or a named one
HostLists == {<<>>, <<None>>, <<"host">>}
\* the device interfaces of a description: at most two, the unnamed one last
DeviceLists == {<<>>, <<"core">>, <<"dma">>, <<"core", "dma">>,
                <<None>>, <<"core", None>>, <<"dma", None>>}
Named(l) == LET IsName(i) == i # None IN SelectSeq(l, IsName)
BlockFaults == {"none", "schema"}
AliasFaults == {"none", "check_keys", "alias_impl", "build_blocks"}
AliasImpl == "impl1"

\* a 'registers' entry with the keys S, every block of the generic structure
GenericRegisters(S) ==
    LET l == CHOOSE x \in ListsOver(DictKeys) : set(x) = S /\ Len(x) = Cardinality(S)
    IN  [i \in DOMAIN l |->
            [key |-> l[i], struct |-> GenericStruct, cosm |-> "generic"]]

\* the 'registers' entries of an alias description
AliasRegisters ==
    UNION {{[i \in DOMAIN l |->
                [key |-> l[i], struct |-> s[i], cosm |-> "alias"]]
               : s \in [DOMAIN l -> Structs]} : l \in RegisterKeyLists}

----------------------------------------------------------------------------
\* The program: regtool builds the IpBlock, then merges at most one alias file.

NoCall == [op |-> "none", scrub |-> FALSE, raw |-> [fault |-> "none"],
           node |-> "", status |-> "ok", step |-> "done"]

NoFields == [reg_blocks |-> EmptyDict, bus_interfaces |-> NoBusInterfaces,
             alias_impl |-> None]

Init ==
    /\ phase = "start"
    /\ name = BlockName
    /\ node = ""
    /\ reg_blocks = EmptyDict
    /\ bus_interfaces = NoBusInterfaces
    /\ alias_impl = None
    /\ call = NoCall
    /\ old = NoFields
    /\ ser = NoSer
    /\ reparsed = NoReparse
    /\ rw_blocks = <<>>
    /\ rw_status = "none"

\* regtool.py: obj = IpBlock.from_text(srcfull, params, infile.name, args.node)
FromRaw ==
    /\ phase = "start"
    /\ \E f \in BlockFaults, u \in BOOLEAN, nd \in NamedDeviceLists,
          S \in SUBSET DictKeys, n \in Nodes :
         \E a \in AsyncDicts(nd, GenericClocks) :
           LET raw == [fault |-> f,
                       bus_interfaces |->
                           BusInterfaces(FALSE, <<>>, u, nd, a, DefaultHierPath),
                       registers |-> GenericRegisters(S)]
               r == from_raw(raw, n)
           IN  /\ phase' = IF r.status = "ok" THEN "built" ELSE "failed"
               /\ node' = IF r.status = "ok" THEN n ELSE ""
               /\ reg_blocks' = IF r.status = "ok" THEN r.reg_blocks ELSE EmptyDict
               /\ bus_interfaces' = IF r.status = "ok" THEN r.bus_interfaces
                                    ELSE NoBusInterfaces
               /\ alias_impl' = None
               /\ call' = [op |-> "from_raw", scrub |-> FALSE, raw |-> raw,
                           node |-> n, status |-> r.status, step |-> r.step]
               /\ old' = NoFields
               /\ UNCHANGED <<name, ser, reparsed, rw_blocks, rw_status>>

\* regtool.py: obj.alias_from_path(args.scrub, args.alias)
AliasFromRaw ==
    /\ phase = "built"
    /\ ser.form = "none"
    /\ \E scrub \in BOOLEAN, f \in AliasFaults, t \in TargetNames,
          hosts \in HostLists, devices \in DeviceLists,
          regs \in AliasRegisters :
         \E a \in AsyncDicts(Named(devices), AsyncClocks) :
           LET raw == [fault |-> f, alias_impl |-> AliasImpl, alias_target |-> t,
                       bus_interfaces |-> BusInterfaces(None \in set(hosts), Named(hosts),
                                         None \in set(devices), Named(devices),
                                         a, AliasHierPath),
                       registers |-> regs]
               self == [name |-> name, reg_blocks |-> reg_blocks,
                        bus_interfaces |-> bus_interfaces,
                        alias_impl |-> alias_impl]
               r == alias_from_raw(self, scrub, raw)
           IN  /\ phase' = IF r.status = "ok" THEN "merged" ELSE "merge_failed"
               /\ reg_blocks' = r.reg_blocks
               /\ bus_interfaces' = r.bus_interfaces
               /\ alias_impl' = r.alias_impl
               /\ call' = [op |-> "alias_from_raw", scrub |-> scrub, raw |-> raw,
                           node |-> node, status |-> r.status, step |-> r.step]
               /\ old' = [reg_blocks |-> reg_blocks,
                          bus_interfaces |-> bus_interfaces,
                          alias_impl |-> alias_impl]
               /\ UNCHANGED <<name, node, ser, reparsed, rw_blocks, rw_status>>

\* The IpBlock is serialized, after the alias merge if there is one.
Serialize ==
    /\ phase \in {"built", "merged"}
    /\ ser.form = "none"
    /\ ser' = asdict([name |-> name, reg_blocks |-> reg_blocks,
                      bus_interfaces |-> bus_interfaces])
    /\ UNCHANGED <<phase, name, node, reg_blocks, bus_interfaces, alias_impl,
                   call, old, reparsed, rw_blocks, rw_status>>

\* The serialized form is fed to a fresh from_raw, without node selector.
Reparse ==
    /\ ser.form = "dict"
    /\ reparsed.status = "none"
    /\ reparsed' = from_raw(raw_of(ser), "")
    /\ UNCHANGED <<phase, name, node, reg_blocks, bus_interfaces, alias_impl,
                   call, old, ser, rw_blocks, rw_status>>

Next == FromRaw \/ AliasFromRaw \/ Serialize \/ Reparse

Spec == Init /\ [][Next]_vars

\* The regwen audit, on the register blocks of any IpBlock.
InitRegwen ==
    /\ phase = "start"
    /\ name = BlockName
    /\ node = ""
    /\ reg_blocks = EmptyDict
    /\ bus_interfaces = NoBusInterfaces
    /\ alias_impl = None
    /\ call = NoCall
    /\ old = NoFields
    /\ ser = NoSer
    /\ reparsed = NoReparse
    /\ rw_blocks \in RegwenInputs
    /\ rw_status = "none"

CheckRegwens ==
    /\ rw_status = "none"
    /\ rw_status' = check_regwens(rw_blocks, 1, "True")
    /\ UNCHANGED <<phase, name, node, reg_blocks, bus_interfaces, alias_impl,
                   call, old, ser, reparsed, rw_blocks>>

NextRegwen == CheckRegwens

SpecRegwen == InitRegwen /\ [][NextRegwen]_vars

----------------------------------------------------------------------------
\* Properties

\* the device interface identities a bus interface set declares
Declared(bus) ==
    {bus.named_devices[i] : i \in DOMAIN bus.named_devices}
        \cup (IF bus.has_unnamed_device THEN {None} ELSE {})

\* the keys of the 'registers' entry of a description
RawKeys(raw) == {raw.registers[i].key : i \in DOMAIN raw.registers}

Constructed == call.op = "from_raw"
Aliased == call.op = "alias_from_raw"

\* C1: when from_raw succeeds without a node selector, the keys of reg_blocks
\* are exactly the named devices of bus_interfaces, plus None iff it has an
\* unnamed device; when the keys built from the description differ from the
\* declared interfaces, from_raw fails and there is no IpBlock.
C1_Bijection ==
    (Constructed /\ call.node = "") =>
        /\ call.status = "ok" =>
              /\ phase = "built"
              /\ bus_interfaces = call.raw.bus_interfaces
              /\ DOMAIN reg_blocks = Declared(bus_interfaces)
        /\ RawKeys(call.raw) # Declared(call.raw.bus_interfaces) =>
              /\ call.status # "ok"
              /\ phase = "failed"

C1_Witness ==
    /\ Constructed /\ call.node = "" /\ call.status = "ok"
    /\ bus_interfaces.has_unnamed_device
    /\ bus_interfaces.named_devices # <<>>

\* C2 (as claimed): an IpBlock constructed with a node selector has reg_blocks
\* keyed by exactly the device interfaces its bus_interfaces exposes.
C2_NodeBijection ==
    (Constructed /\ call.status = "ok" /\ call.node # "") =>
        DOMAIN reg_blocks = Declared(bus_interfaces)

\* C3 (as claimed): for a description whose registers are keyed by its
\* declared interfaces, constructing with a declared named device as the
\* node selector succeeds and leaves exactly that key, whatever other
\* interfaces (named or unnamed) are declared.
C3_NodeSelects ==
    (/\ Constructed
     /\ call.raw.fault = "none"
     /\ RawKeys(call.raw) = Declared(call.raw.bus_interfaces)
     /\ call.node \in Declared(call.raw.bus_interfaces) \ {None}) =>
        /\ call.status = "ok"
        /\ DOMAIN reg_blocks = {call.node}

\* C4 (as claimed): when alias_from_raw fails, reg_blocks and the device
\* hier paths are as they were before the call.
C4_NoPartialMutation ==
    (Aliased /\ call.status # "ok") =>
        /\ reg_blocks = old.reg_blocks
        /\ bus_interfaces.device_hier_paths = old.bus_interfaces.device_hier_paths

\* C5: alias_from_raw fails whenever the alias_target differs from the
\* IpBlock's name, in either scrub mode, and then no register block has been
\* modified or replaced.
C5_WrongTargetFails ==
    (Aliased /\ call.raw.alias_target # name) =>
        /\ call.status # "ok"
        /\ reg_blocks = old.reg_blocks

C5_Witness ==
    /\ Aliased /\ call.raw.alias_target # name
    /\ call.step = "alias_target"
    /\ call.raw.fault = "none"
    /\ RawKeys(call.raw) # {}
    /\ RawKeys(call.raw) = Declared(call.raw.bus_interfaces)
    /\ RawKeys(call.raw) \subseteq DOMAIN old.reg_blocks

\* C6: alias_from_raw fails whenever the alias file declares a named device
\* that is not a named device of the IpBlock, in either scrub mode; the
\* rejection comes no later than the device-name check, so that nothing of
\* the IpBlock (alias_impl included) has changed.
C6_UnknownDeviceFails ==
    (Aliased /\ ~(Declared(call.raw.bus_interfaces) \ {None}
                    \subseteq Declared(old.bus_interfaces))) =>
        /\ call.status # "ok"
        /\ call.step \in {"check_keys", "host interface", "unnamed device",
                          "device names"}
        /\ alias_impl = old.alias_impl
        /\ reg_blocks = old.reg_blocks
        /\ bus_interfaces = old.bus_interfaces

C6_Witness ==
    /\ Aliased /\ call.step = "device names"
    /\ Declared(old.bus_interfaces) # {}
    /\ Declared(old.bus_interfaces) \subseteq Declared(call.raw.bus_interfaces)
    /\ Declared(old.bus_interfaces) # Declared(call.raw.bus_interfaces)

\* C7: after a successful alias_from_raw, in either scrub mode, the register
\* block of every device interface the alias file does not mention is the
\* same object with the same content as before the call.
C7_UnmentionedUntouched ==
    (Aliased /\ call.status = "ok") =>
        \A k \in DOMAIN old.reg_blocks \ RawKeys(call.raw) :
            /\ k \in DOMAIN reg_blocks
            /\ reg_blocks[k] = old.reg_blocks[k]

C7_Witness ==
    /\ Aliased /\ call.status = "ok" /\ call.scrub
    /\ RawKeys(call.raw) # {}
    /\ DOMAIN old.reg_blocks \ RawKeys(call.raw) # {}

\* C8: alias_from_raw with scrub = False, successful or failing, leaves the
\* set of keys of reg_blocks as it was before the call.
C8_NonScrubKeepsKeys ==
    (Aliased /\ ~call.scrub) => DOMAIN reg_blocks = DOMAIN old.reg_blocks

C8_Witness ==
    /\ Aliased /\ ~call.scrub /\ call.status = "ok"
    /\ RawKeys(call.raw) # {}
    /\ RawKeys(call.raw) # DOMAIN old.reg_blocks
    /\ \E k \in RawKeys(call.raw) : reg_blocks[k] # old.reg_blocks[k]

\* C9: after a successful alias_from_raw with scrub = True, reg_blocks[k] of
\* every aliased interface k is the block built from the alias file, scrubbed:
\* a full replacement, the generic block is no longer referenced.
C9_ScrubReplaces ==
    (Aliased /\ call.scrub /\ call.status = "ok") =>
        \A i \in DOMAIN call.raw.registers :
            LET k == call.raw.registers[i].key
            IN  /\ k \in DOMAIN reg_blocks
                /\ reg_blocks[k] = [origin |-> "alias", key |-> k,
                                    struct |-> call.raw.registers[i].struct,
                                    cosm |-> "scrubbed"]

C9_Witness ==
    /\ Aliased /\ call.scrub /\ call.status = "ok"
    /\ \E i \in DOMAIN call.raw.registers :
          /\ call.raw.registers[i].struct # GenericStruct
          /\ old.reg_blocks[call.raw.registers[i].key].origin = "generic"

\* C10: alias_from_raw fails, before alias_impl is recorded and before any
\* register block is built or changed, when the alias file declares a host
\* interface (named or unnamed) or an unnamed device interface, or when the
\* IpBlock has an unnamed device interface.
C10_NamedDevicesOnly ==
    (Aliased /\ (\/ call.raw.bus_interfaces.has_unnamed_host
                 \/ call.raw.bus_interfaces.named_hosts # <<>>
                 \/ call.raw.bus_interfaces.has_unnamed_device
                 \/ old.bus_interfaces.has_unnamed_device)) =>
        /\ call.status = "ValueError"
        /\ call.step \in {"check_keys", "host interface", "unnamed device"}
        /\ alias_impl = old.alias_impl
        /\ reg_blocks = old.reg_blocks
        /\ bus_interfaces = old.bus_interfaces

C10_Witness ==
    /\ Aliased /\ call.step = "unnamed device"
    /\ old.bus_interfaces.has_unnamed_device
    /\ ~call.raw.bus_interfaces.has_unnamed_device
    /\ call.raw.fault = "none"
    /\ call.raw.alias_target = name

\* the call got as far as the merge loop of lines 302-324
ReachedMergeLoop ==
    /\ Aliased
    /\ call.step \in {"done", "missing device_async", "device_async",
                      "inconsistent async", "device_hier_paths", "reg_blocks",
                      "apply_alias"}

\* the IpBlock marks k asynchronous and the alias file does not, or not with
\* the same classification
AsyncDisagrees(k) ==
    /\ k \in DOMAIN old.bus_interfaces.device_async
    /\ \/ k \notin DOMAIN call.raw.bus_interfaces.device_async
       \/ call.raw.bus_interfaces.device_async[k]
              # old.bus_interfaces.device_async[k]

\* C11 (as claimed): when the merge loop is reached and the IpBlock marks an
\* aliased interface asynchronous while the alias file does not mark it so
\* with the same classification, the merge fails with the missing-async or
\* the inconsistent-configuration ValueError (or with apply_alias' rejection
\* of an interface that comes earlier in the file).
C11_AsyncDisagreementRejected ==
    (ReachedMergeLoop /\ \E k \in RawKeys(call.raw) : AsyncDisagrees(k)) =>
        /\ call.status = "ValueError"
        /\ call.step \in {"missing device_async", "inconsistent async",
                          "apply_alias"}

\* C15 (as claimed): alias_impl is set only if an alias_from_raw call has
\* completed successfully, and a failing call leaves it as it was.
C15_AliasImplOnlyAfterMerge ==
    /\ alias_impl # None => (Aliased /\ call.status = "ok")
    /\ (Aliased /\ call.status # "ok") => alias_impl = old.alias_impl

\* the step of alias_from_raw's validation that an alias description violates
\* first, in the order of the checks; "none" if it violates none
FirstViolatedStep ==
    LET abi == call.raw.bus_interfaces
        names == Declared(abi) \ {None}
    IN  IF abi.has_unnamed_host \/ abi.named_hosts # <<>>
        THEN "host interface"
        ELSE IF abi.has_unnamed_device \/ old.bus_interfaces.has_unnamed_device
        THEN "unnamed device"
        ELSE IF ~(names \subseteq Declared(old.bus_interfaces))
        THEN "device names"
        ELSE IF call.raw.alias_target # name
        THEN "alias_target"
        ELSE IF ~(RawKeys(call.raw) \subseteq DOMAIN old.reg_blocks)
        THEN "register blocks"
        ELSE IF RawKeys(call.raw) # names
        THEN "names do not match"
        ELSE "none"

\* C16 (as claimed): the error of an alias description that violates several
\* checks is that of the first violated step, and when the async check of an
\* aliased interface fails, the merge step has not been applied to any
\* interface yet.
C16_ValidationBeforeMerge ==
    /\ (Aliased /\ call.raw.fault = "none" /\ FirstViolatedStep # "none") =>
          /\ call.status = "ValueError"
          /\ call.step = FirstViolatedStep
    /\ (Aliased /\ call.step \in {"missing device_async",
                                  "inconsistent async"}) =>
          /\ reg_blocks = old.reg_blocks
          /\ bus_interfaces = old.bus_interfaces

\* C17 (as claimed): a construction that fails on a mismatch between the
\* register-block keys and the device interfaces, before or after the node
\* filter, fails with the ValueError of from_raw's bijection check.
C17_MismatchIsValueError ==
    (Constructed /\ call.step \in {"bijection", "assert bijection"}) =>
        call.status = "ValueError"

\* C18: after a successful alias_from_raw with scrub = False, the hier path
\* of every aliased interface is the one the alias file declares for it, and
\* the hier paths of the other interfaces are as before the call.
C18_HierPathOverridden ==
    (Aliased /\ ~call.scrub /\ call.status = "ok") =>
        /\ DOMAIN bus_interfaces.device_hier_paths
              = DOMAIN old.bus_interfaces.device_hier_paths
        /\ \A k \in DOMAIN bus_interfaces.device_hier_paths :
              bus_interfaces.device_hier_paths[k] =
                 IF k \in RawKeys(call.raw)
                 THEN call.raw.bus_interfaces.device_hier_paths[k]
                 ELSE old.bus_interfaces.device_hier_paths[k]

C18_Witness ==
    /\ Aliased /\ ~call.scrub /\ call.status = "ok"
    /\ \E k \in RawKeys(call.raw) :
          bus_interfaces.device_hier_paths[k]
              # old.bus_interfaces.device_hier_paths[k]
    /\ DOMAIN old.bus_interfaces.device_hier_paths \ RawKeys(call.raw) # {}

\* C20 (as claimed): every successfully constructed IpBlock has a non-empty
\* reg_blocks, also with a node selector.
C20_RegBlocksNonEmpty ==
    (Constructed /\ call.status = "ok") => DOMAIN reg_blocks # {}

\* C12 (as claimed): feeding the result of _asdict to a fresh from_raw
\* succeeds and yields an IpBlock with the same register names and the same
\* bus interfaces.
C12_RoundTrip ==
    reparsed.status # "none" =>
        /\ reparsed.status = "ok"
        /\ get_rnames(reparsed.reg_blocks) = get_rnames(reg_blocks)
        /\ reparsed.bus_interfaces = bus_interfaces

\* C13: _asdict emits 'registers' as a flat list iff reg_blocks has exactly
\* one entry and its key is None; otherwise as a mapping with the keys of
\* reg_blocks.
C13_FlatListIffSingleUnnamed ==
    ser.form # "none" =>
        /\ ser.registers.form \in {"list", "dict"}
        /\ ser.registers.form = "list" <=> DOMAIN reg_blocks = {None}
        /\ ser.registers.form = "dict" =>
              DOMAIN ser.registers.items = DOMAIN reg_blocks

C13_Witness ==
    /\ ser.form # "none"
    /\ ser.registers.form = "dict"
    /\ Cardinality(DOMAIN reg_blocks) = 1

\* the registers and multi-register instances of block b
PlainRegs(b) == {b.registers[i] : i \in DOMAIN b.registers}
Pregs(b) ==
    UNION {{b.multiregs[j].pregs[i] : i \in DOMAIN b.multiregs[j].pregs}
              : j \in DOMAIN b.multiregs}
NameHasMarker(n) == n \in {<<"REGWEN">>, <<"CTRL", "REGWEN">>}

C19_SelfReferenceIsUnused ==
    (/\ rw_status # "none"
     /\ \E i \in DOMAIN rw_blocks :
           \E g \in PlainRegs(rw_blocks[i]) :
              /\ NameHasMarker(g.name)
              /\ \A u \in (PlainRegs(rw_blocks[i]) \ {g}) \cup Pregs(rw_blocks[i]) :
                    u.regwen # g.name)
        => rw_status = "False"

\* the steps at which the async check of lines 304-312 ends a call
AsyncSteps == {"missing device_async", "inconsistent async", "device_async"}

\* the aliased interface at which the merge loop of a failed call stopped:
\* the first item of alias_reg_blocks whose iteration raises
FailedKey ==
    LET items == build_blocks(call.raw.registers, TRUE)
        st0 == Result("ok", "done", old.reg_blocks, old.bus_interfaces,
                      call.raw.alias_impl)
        Fails(j) == merge_loop(st0, call.scrub, call.raw.bus_interfaces,
                               SubSeq(items, 1, j), 1).status # "ok"
        j == CHOOSE x \in DOMAIN items :
                 Fails(x) /\ \A y \in DOMAIN items : y < x => ~Fails(y)
    IN  items[j].key

\* C21 (as claimed): the async check is per interface: when the merge loop
\* stops in the async check, it stops at an aliased interface that the
\* IpBlock's bus_interfaces marks asynchronous; an interface the IpBlock does
\* not mark asynchronous is never rejected on async grounds.
C21_AsyncCheckPerInterface ==
    (ReachedMergeLoop /\ call.status # "ok" /\ call.step \in AsyncSteps) =>
        FailedKey \in DOMAIN old.bus_interfaces.device_async

\* C22 (as claimed): every failure of alias_from_raw is a ValueError, the
\* error regtool catches: no lookup by aliased key in the merge loop
\* (device_async of the IpBlock and of the alias, device_hier_paths of the
\* alias, reg_blocks of the IpBlock) fails with a KeyError.
C22_FailuresAreValueErrors ==
    (Aliased /\ call.status # "ok") =>
        /\ call.status = "ValueError"
        /\ call.step \notin {"device_async", "device_hier_paths", "reg_blocks"}

====
